---- MODULE Spec2Model ----
(***************************************************************************)
(* TaskFlow: the Task entity (models/Task), the in-memory task store       *)
(* (repositories/InMemoryTaskRepository) and the task service              *)
(* (services/TaskService).                                                 *)
(*                                                                         *)
(* JavaScript values that reach the service are modelled as records        *)
(* [kind, chars]: undefined, null, or a string.  A string is kept in       *)
(* run-length form, a sequence of runs [c, n] (character c repeated n      *)
(* times, n > 0, neighbouring runs of different characters), so that a     *)
(* 2001 character description is one run; length, trim and comparison are  *)
(* computed on that form.                                                  *)
(***************************************************************************)
EXTENDS Integers, Sequences, FiniteSets, TLC

\* ---------------------------------------------------------------- bounds
MaxTasks == 2
MaxTime == 1

\* the largest number of tasks whose statistics are computed
MaxStored == 160

\* ------------------------------------------------------ program constants
MaxTitleLength == 200
MaxDescriptionLength == 2000
BadRequest == 400
NotFound == 404

\* the replies of the controller and of the error handler
Ok == 200

Created == 201

InternalServerError == 500

\* completionRate is a percentage kept to two decimals
Hundred == 100

\* the bits of the significand of a Number (IEEE 754 double precision)
Precision == 53

\* ------------------------------------------------------------ JS values
Run(c, n) == [c |-> c, n |-> n]

Undefined == [kind |-> "undefined", chars |-> <<>>]

Null == [kind |-> "null", chars |-> <<>>]

Str(runs) == [kind |-> "string", chars |-> runs]

WhiteSpace == {" ", "\t", "\n"}

\* String.prototype.length
RECURSIVE RunsLength(_)
RunsLength(runs) ==
  IF runs = <<>> THEN 0 ELSE Head(runs).n + RunsLength(Tail(runs))

Length(v) == RunsLength(v.chars)

\* String.prototype.trim: strips the leading and the trailing white space
RECURSIVE TrimStart(_)
TrimStart(runs) ==
  IF runs # <<>> /\ Head(runs).c \in WhiteSpace THEN TrimStart(Tail(runs))
  ELSE runs

RECURSIVE TrimEnd(_)
TrimEnd(runs) ==
  IF runs # <<>> /\ runs[Len(runs)].c \in WhiteSpace
  THEN TrimEnd(SubSeq(runs, 1, Len(runs) - 1))
  ELSE runs

Trim(v) == Str(TrimEnd(TrimStart(v.chars)))

\* the characters of a string, one by one
RECURSIVE Expand(_)
Expand(runs) ==
  IF runs = <<>> THEN <<>>
  ELSE [i \in 1..Head(runs).n |-> Head(runs).c] \o Expand(Tail(runs))

\* the letters of the model that have two cases, and the Greek sigma: the
\* capital letter, the small letter and the small letter at the end of a word
CapitalSigma == "U+03A3"

SmallSigma == "U+03C3"

FinalSigma == "U+03C2"

UpperCase == {"A", "B", CapitalSigma}

LowerCase == {"a", "b", SmallSigma, FinalSigma}

Cased(c) == c \in UpperCase \cup LowerCase

\* String.prototype.toLowerCase, on the characters of a string: the
\* mapping of the Unicode character database, in which a capital sigma
\* that ends a word becomes the final sigma
ToLowerCase(chars) ==
  [i \in 1..Len(chars) |->
     IF chars[i] = "A" THEN "a"
     ELSE IF chars[i] = "B" THEN "b"
     ELSE IF chars[i] = CapitalSigma
       THEN IF /\ i > 1
               /\ Cased(chars[i - 1])
               /\ ~(i < Len(chars) /\ Cased(chars[i + 1]))
              THEN FinalSigma
            ELSE SmallSigma
     ELSE chars[i]]

\* String.prototype.includes, on the characters of two strings
Includes(chars, search) ==
  \E i \in 0..(Len(chars) - Len(search)) :
    SubSeq(chars, i + 1, i + Len(search)) = search

\* ToBoolean on the values of the model: undefined, null and "" are falsy
Truthy(v) == v.kind = "string" /\ v.chars # <<>>

\* enum TaskStatus
PENDING == Str(<<Run("p", 1), Run("e", 1), Run("n", 1), Run("d", 1),
                 Run("i", 1), Run("n", 1), Run("g", 1)>>)

IN_PROGRESS == Str(<<Run("i", 1), Run("n", 1), Run("_", 1), Run("p", 1),
                     Run("r", 1), Run("o", 1), Run("g", 1), Run("r", 1),
                     Run("e", 1), Run("s", 2)>>)

DONE == Str(<<Run("d", 1), Run("o", 1), Run("n", 1), Run("e", 1)>>)

TaskStatus == {PENDING, IN_PROGRESS, DONE}

\* ---------------------------------------------------------------- errors
NoError == [kind |-> "ok", code |-> "", statusCode |-> 0]

TaskError(code, statusCode) ==
  [kind |-> "TaskError", code |-> code, statusCode |-> statusCode]

\* calling .trim() on null throws a TypeError, which is not a TaskError
TypeError == [kind |-> "TypeError", code |-> "", statusCode |-> 0]

\* --------------------------------------------------- service validation
IsValidStatus(status) == status \in TaskStatus

\* as ValidateCreateData, the title tested for emptiness without trim()
ValidateCreateData_NoTrim(data) ==
  IF ~Truthy(data.title)
    THEN TaskError("INVALID_TITLE", BadRequest)
  ELSE IF Length(data.title) > MaxTitleLength
    THEN TaskError("TITLE_TOO_LONG", BadRequest)
  ELSE IF ~Truthy(data.description) \/ Length(Trim(data.description)) = 0
    THEN TaskError("INVALID_DESCRIPTION", BadRequest)
  ELSE IF Length(data.description) > MaxDescriptionLength
    THEN TaskError("DESCRIPTION_TOO_LONG", BadRequest)
  ELSE IF Truthy(data.status) /\ ~IsValidStatus(data.status)
    THEN TaskError("INVALID_STATUS", BadRequest)
  ELSE NoError

\* as ValidateCreateData, the description tested for emptiness without trim()
ValidateCreateData_DescriptionNoTrim(data) ==
  IF ~Truthy(data.title) \/ Length(Trim(data.title)) = 0
    THEN TaskError("INVALID_TITLE", BadRequest)
  ELSE IF Length(data.title) > MaxTitleLength
    THEN TaskError("TITLE_TOO_LONG", BadRequest)
  ELSE IF ~Truthy(data.description)
    THEN TaskError("INVALID_DESCRIPTION", BadRequest)
  ELSE IF Length(data.description) > MaxDescriptionLength
    THEN TaskError("DESCRIPTION_TOO_LONG", BadRequest)
  ELSE IF Truthy(data.status) /\ ~IsValidStatus(data.status)
    THEN TaskError("INVALID_STATUS", BadRequest)
  ELSE NoError

ValidateCreateData(data) ==
  IF ~Truthy(data.title) \/ Length(Trim(data.title)) = 0
    THEN TaskError("INVALID_TITLE", BadRequest)
  ELSE IF Length(data.title) > MaxTitleLength
    THEN TaskError("TITLE_TOO_LONG", BadRequest)
  ELSE IF ~Truthy(data.description) \/ Length(Trim(data.description)) = 0
    THEN TaskError("INVALID_DESCRIPTION", BadRequest)
  ELSE IF Length(data.description) > MaxDescriptionLength
    THEN TaskError("DESCRIPTION_TOO_LONG", BadRequest)
  ELSE IF Truthy(data.status) /\ ~IsValidStatus(data.status)
    THEN TaskError("INVALID_STATUS", BadRequest)
  ELSE NoError

\* as ValidateUpdateData, the title tested with "data.title &&" where the
\* code has "data.title !== undefined &&"
ValidateUpdateData_TruthyTitle(data) ==
  IF Truthy(data.title) /\ Length(Trim(data.title)) = 0
    THEN TaskError("INVALID_TITLE", BadRequest)
  ELSE IF Truthy(data.title) /\ Length(data.title) > MaxTitleLength
    THEN TaskError("TITLE_TOO_LONG", BadRequest)
  ELSE IF data.description = Null
    THEN TypeError
  ELSE IF data.description # Undefined /\ Length(Trim(data.description)) = 0
    THEN TaskError("INVALID_DESCRIPTION", BadRequest)
  ELSE IF Truthy(data.description)
          /\ Length(data.description) > MaxDescriptionLength
    THEN TaskError("DESCRIPTION_TOO_LONG", BadRequest)
  ELSE IF Truthy(data.status) /\ ~IsValidStatus(data.status)
    THEN TaskError("INVALID_STATUS", BadRequest)
  ELSE NoError

\* as ValidateUpdateData, the limits tested with >= where the code has >
ValidateUpdateData_OffByOne(data) ==
  IF data.title = Null
    THEN TypeError
  ELSE IF data.title # Undefined /\ Length(Trim(data.title)) = 0
    THEN TaskError("INVALID_TITLE", BadRequest)
  ELSE IF Truthy(data.title) /\ Length(data.title) >= MaxTitleLength
    THEN TaskError("TITLE_TOO_LONG", BadRequest)
  ELSE IF data.description = Null
    THEN TypeError
  ELSE IF data.description # Undefined /\ Length(Trim(data.description)) = 0
    THEN TaskError("INVALID_DESCRIPTION", BadRequest)
  ELSE IF Truthy(data.description)
          /\ Length(data.description) >= MaxDescriptionLength
    THEN TaskError("DESCRIPTION_TOO_LONG", BadRequest)
  ELSE IF Truthy(data.status) /\ ~IsValidStatus(data.status)
    THEN TaskError("INVALID_STATUS", BadRequest)
  ELSE NoError

ValidateUpdateData(data) ==
  IF data.title = Null
    THEN TypeError
  ELSE IF data.title # Undefined /\ Length(Trim(data.title)) = 0
    THEN TaskError("INVALID_TITLE", BadRequest)
  ELSE IF Truthy(data.title) /\ Length(data.title) > MaxTitleLength
    THEN TaskError("TITLE_TOO_LONG", BadRequest)
  ELSE IF data.description = Null
    THEN TypeError
  ELSE IF data.description # Undefined /\ Length(Trim(data.description)) = 0
    THEN TaskError("INVALID_DESCRIPTION", BadRequest)
  ELSE IF Truthy(data.description)
          /\ Length(data.description) > MaxDescriptionLength
    THEN TaskError("DESCRIPTION_TOO_LONG", BadRequest)
  ELSE IF Truthy(data.status) /\ ~IsValidStatus(data.status)
    THEN TaskError("INVALID_STATUS", BadRequest)
  ELSE NoError

\* as ValidateId, the test left out
ValidateId_NoCheck(id) == NoError

ValidateId(id) ==
  IF ~Truthy(id) \/ Length(Trim(id)) = 0
    THEN TaskError("INVALID_ID", BadRequest)
  ELSE NoError

\* ------------------------------------------------------- request inputs
\* as Uuid, the identifier handed out again
Uuid_Same(n) == Str(<<Run("u", 1)>>)

\* uuidv4(): the n-th identifier handed out, a non-blank string that differs
\* from every other one (n repetitions of one character)
Uuid(n) == Str(<<Run("u", n)>>)

\* every class of value the validation tells apart, with the lengths on both
\* sides of each limit
TitleInputs ==
  { Undefined, Null, Str(<<>>), Str(<<Run(" ", 1)>>),
    Str(<<Run("a", 1)>>), Str(<<Run("a", MaxTitleLength)>>),
    Str(<<Run("a", MaxTitleLength + 1)>>),
    Str(<<Run(" ", MaxTitleLength + 1)>>) }

DescriptionInputs ==
  { Undefined, Null, Str(<<>>), Str(<<Run("\t", 1)>>),
    Str(<<Run("d", 1)>>), Str(<<Run("d", MaxDescriptionLength)>>),
    Str(<<Run("d", MaxDescriptionLength + 1)>>),
    Str(<<Run(" ", MaxDescriptionLength + 1)>>) }

StatusInputs ==
  { Undefined, Null, Str(<<>>), PENDING, IN_PROGRESS, DONE,
    Str(<<Run("x", 1)>>) }

DataInputs ==
  [title : TitleInputs, description : DescriptionInputs,
   status : StatusInputs]

\* the empty and the blank identifier, the first identifier and one that
\* is never handed out while a single task is created
FewIdInputs == { Str(<<>>), Str(<<Run(" ", 1)>>), Uuid(1), Uuid(2) }

\* the inputs of the runs with several tasks: a field is absent or valid,
\* the status also empty or unknown
SomeDataInputs ==
  [title : { Undefined, Str(<<Run("a", 1)>>) },
   description : { Undefined, Str(<<Run("d", 1)>>) },
   status : { Undefined, Str(<<>>), DONE, Str(<<Run("x", 1)>>) }]

\* the empty identifier, every identifier that can be handed out and one
\* that never is
IdInputs == { Str(<<>>) } \cup { Uuid(n) : n \in 1..(MaxTasks + 1) }

\* the titles of the tasks that are searched by title
StoredTitleInputs ==
  { Str(<<Run("A", 1), Run("b", 1)>>),
    Str(<<Run("A", 1), Run(CapitalSigma, 1)>>),
    Str(<<Run("b", 1)>>) }

\* the terms searched: the empty one, parts of the titles in the other
\* case, and one that is in no title
SearchInputs ==
  { Str(<<>>),
    Str(<<Run("a", 1)>>),
    Str(<<Run("A", 1), Run("B", 1)>>),
    Str(<<Run(CapitalSigma, 1)>>),
    Str(<<Run("b", 2)>>) }

\* the status of a query: an enumerated one, the empty or an unknown one
QueryStatusInputs ==
  { PENDING, IN_PROGRESS, DONE, Str(<<>>), Str(<<Run("x", 1)>>) }

NoData == [title |-> Undefined, description |-> Undefined,
           status |-> Undefined]

\* ----------------------------------------------------------------- state
VARIABLES
  tasks,     \* InMemoryTaskRepository.tasks: the Map, in insertion order
  nextId,    \* how many identifiers uuidv4() has handed out
  now,       \* the clock read by new Date()
  last,      \* the last service call: its arguments and its outcome
  pristine,  \* tasks as createTask returned them, until updated or deleted
  issued,    \* the ids createTask has returned so far
  removed,   \* the ids deleteTask has deleted so far
  inflight   \* the call that is suspended at an await of the store, if any

vars == <<tasks, nextId, now, last, pristine, issued, removed, inflight>>

\* ------------------------------------------------------------ Task entity
\* as TaskNew, the status of the input ignored
TaskNew_AlwaysPending(data, id, t1, t2) ==
  [id |-> id,
   title |-> data.title,
   description |-> data.description,
   status |-> PENDING,
   createdAt |-> t1,
   updatedAt |-> t2]

\* as TaskNew, the two clock reads taken in the other order
TaskNew_StampsSwapped(data, id, t1, t2) ==
  [id |-> id,
   title |-> data.title,
   description |-> data.description,
   status |-> IF Truthy(data.status) THEN data.status ELSE PENDING,
   createdAt |-> t2,
   updatedAt |-> t1]

\* new Task(data): createdAt and updatedAt come from two clock reads
TaskNew(data, id, t1, t2) ==
  [id |-> id,
   title |-> data.title,
   description |-> data.description,
   status |-> IF Truthy(data.status) THEN data.status ELSE PENDING,
   createdAt |-> t1,
   updatedAt |-> t2]

\* as TaskUpdate, createdAt stamped again together with updatedAt
TaskUpdate_StampsCreatedAt(task, data, t) ==
  [id |-> task.id,
   title |-> IF data.title # Undefined THEN data.title ELSE task.title,
   description |-> IF data.description # Undefined THEN data.description
                   ELSE task.description,
   status |-> IF data.status # Undefined THEN data.status ELSE task.status,
   createdAt |-> t,
   updatedAt |-> t]

\* as TaskUpdate, updatedAt left as it was
TaskUpdate_KeepsUpdatedAt(task, data, t) ==
  [id |-> task.id,
   title |-> IF data.title # Undefined THEN data.title ELSE task.title,
   description |-> IF data.description # Undefined THEN data.description
                   ELSE task.description,
   status |-> IF data.status # Undefined THEN data.status ELSE task.status,
   createdAt |-> task.createdAt,
   updatedAt |-> task.updatedAt]

TaskUpdate(task, data, t) ==
  [id |-> task.id,
   title |-> IF data.title # Undefined THEN data.title ELSE task.title,
   description |-> IF data.description # Undefined THEN data.description
                   ELSE task.description,
   status |-> IF data.status # Undefined THEN data.status ELSE task.status,
   createdAt |-> task.createdAt,
   updatedAt |-> t]

TaskMarkAsDone(task, t) ==
  [task EXCEPT !.status = DONE, !.updatedAt = t]

TaskMarkAsInProgress(task, t) ==
  [task EXCEPT !.status = IN_PROGRESS, !.updatedAt = t]

TaskMarkAsPending(task, t) ==
  [task EXCEPT !.status = PENDING, !.updatedAt = t]

\* new Date(d): a Date of the same time value
NewDate(d) == d

ToJSON(task) ==
  [id |-> task.id,
   title |-> task.title,
   description |-> task.description,
   status |-> task.status,
   createdAt |-> task.createdAt,
   updatedAt |-> task.updatedAt]

\* Task.fromJSON(data): a new Task, with the identifier id and the clock
\* readings t1 and t2, on which Object.assign then sets three fields
FromJSON(data, id, t1, t2) ==
  [TaskNew([title |-> data.title, description |-> data.description,
            status |-> data.status], id, t1, t2)
     EXCEPT !.id = data.id,
            !.createdAt = NewDate(data.createdAt),
            !.updatedAt = NewDate(data.updatedAt)]

\* ------------------------------------------------- Map<string, Task>
MapHas(m, k) == \E i \in 1..Len(m) : m[i].id = k

MapGet(m, k) == SelectSeq(m, LAMBDA e : e.id = k)

MapSet(m, k, v) ==
  IF MapHas(m, k) THEN [i \in 1..Len(m) |-> IF m[i].id = k THEN v ELSE m[i]]
  ELSE Append(m, v)

MapDelete(m, k) == SelectSeq(m, LAMBDA e : e.id # k)

\* -------------------------------------------- InMemoryTaskRepository
\* the result of a lookup is <<>> (null) or <<task>>
RepoCreate(m, task) == MapSet(m, task.id, task)

RepoFindAll(m) == m

RepoFindById(m, id) == MapGet(m, id)

RepoUpdate(m, id, data, t) ==
  IF RepoFindById(m, id) = <<>> THEN m
  ELSE MapSet(m, id, TaskUpdate(RepoFindById(m, id)[1], data, t))

\* as RepoDelete, the oldest entry removed where the code removes the key
RepoDelete_First(m, id) == IF MapHas(m, id) THEN Tail(m) ELSE m

\* as RepoDelete, the Map emptied where the code removes one key
RepoDelete_Clear(m, id) == IF MapHas(m, id) THEN <<>> ELSE m

RepoDelete(m, id) == IF MapHas(m, id) THEN MapDelete(m, id) ELSE m

\* what update returns: the updated task, or nothing (null)
RepoUpdateReturns(m, id, data, t) == RepoFindById(RepoUpdate(m, id, data, t), id)

\* as RepoDeleteReturns, true whether the key was there or not
RepoDeleteReturns_True(m, id) == TRUE

\* what delete returns: whether the key was there
RepoDeleteReturns(m, id) == MapHas(m, id)

\* as RepoFindByStatus, the tasks returned whatever their status
RepoFindByStatus_All(m, status) == RepoFindAll(m)

RepoFindByStatus(m, status) == SelectSeq(RepoFindAll(m), LAMBDA e : e.status = status)

RepoCount(m) == Len(m)

RepoFindByTitle(m, title) ==
  LET searchTerm == ToLowerCase(Expand(title.chars)) IN
  SelectSeq(RepoFindAll(m),
            LAMBDA e : Includes(ToLowerCase(Expand(e.title.chars)),
                                searchTerm))

\* as RepoCountByStatus, the tasks counted whatever their status
RepoCountByStatus_All(m, status) == Len(RepoFindAll(m))

RepoCountByStatus(m, status) == Len(RepoFindByStatus(m, status))

\* --------------------------------------------------------- errorHandler
\* as ErrorHandler, every TaskError answered with the status of a bad request
ErrorHandler_BadRequest(err) ==
  IF err.kind = "TaskError" THEN BadRequest ELSE InternalServerError

\* the status of the reply to a request that raised err
ErrorHandler(err) ==
  IF err.kind = "TaskError" THEN err.statusCode ELSE InternalServerError

\* the status of the reply to a request: the controller's on success
Reply(op, err) ==
  IF err = NoError THEN (IF op = "createTask" THEN Created ELSE Ok)
  ELSE ErrorHandler(err)

\* ---------------------------------------------------------- TaskService
NoStatistics ==
  [total |-> 0, pending |-> 0, inProgress |-> 0, done |-> 0,
   completionRate |-> 0]

Outcome(op, id, data, err, result) ==
  [op |-> op, id |-> id, data |-> data, kind |-> err.kind,
   code |-> err.code, statusCode |-> err.statusCode, result |-> result,
   reply |-> Reply(op, err), stats |-> NoStatistics]

NoOutcome == Outcome("none", Undefined, NoData, NoError, <<>>)

\* no call is suspended
NoRequest ==
  [op |-> "none", id |-> Undefined, data |-> NoData, found |-> <<>>,
   reads |-> <<>>]

\* no call is in progress: the previous outcome has been handed over
Idle == last = NoOutcome

\* as TaskNotFound, with the status TaskError takes when none is given
TaskNotFound_BadRequest == TaskError("TASK_NOT_FOUND", BadRequest)

TaskNotFound == TaskError("TASK_NOT_FOUND", NotFound)

Fails(op, id, data, err) ==
  /\ last' = Outcome(op, id, data, err, <<>>)
  /\ UNCHANGED <<tasks, nextId, now, pristine, issued, removed, inflight>>

Forget(id) == { t \in pristine : t.id # id }

CreateTask(data) ==
  LET err == ValidateCreateData(data) IN
  /\ IF err # NoError THEN Fails("createTask", Undefined, data, err)
     ELSE
       /\ \E d \in 0..1 :
            /\ now + d <= MaxTime
            /\ LET task == TaskNew(data, Uuid(nextId + 1), now, now + d) IN
                 /\ tasks' = RepoCreate(tasks, task)
                 /\ last' = Outcome("createTask", Undefined, data, NoError,
                                    <<task>>)
                 /\ pristine' = pristine \cup {task}
                 /\ issued' = issued \cup {task.id}
            /\ now' = now + d
       /\ nextId' = nextId + 1
       /\ UNCHANGED <<removed, inflight>>

GetTaskById(id) ==
  LET err == ValidateId(id)
      found == RepoFindById(tasks, id) IN
  /\ IF err # NoError THEN Fails("getTaskById", id, NoData, err)
     ELSE IF found = <<>> THEN Fails("getTaskById", id, NoData, TaskNotFound)
     ELSE
       /\ last' = Outcome("getTaskById", id, NoData, NoError, found)
       /\ UNCHANGED <<tasks, nextId, now, pristine, issued, removed, inflight>>

\* as UpdateTaskAs, the data validated after the store has been updated
UpdateTaskAs_ValidatesLate(op, id, data) ==
  LET err == ValidateId(id)
      err2 == ValidateUpdateData(data) IN
  /\ IF err # NoError THEN Fails(op, id, data, err)
     ELSE IF RepoFindById(tasks, id) = <<>>
       THEN Fails(op, id, data, IF err2 # NoError THEN err2 ELSE TaskNotFound)
     ELSE
       /\ tasks' = RepoUpdate(tasks, id, data, now)
       /\ last' = Outcome(op, id, data, err2,
                          IF err2 # NoError THEN <<>>
                          ELSE RepoUpdateReturns(tasks, id, data, now))
       /\ pristine' = Forget(id)
       /\ UNCHANGED <<nextId, now, issued, removed, inflight>>

UpdateTaskAs(op, id, data) ==
  LET err == ValidateId(id)
      err2 == ValidateUpdateData(data) IN
  /\ IF err # NoError THEN Fails(op, id, data, err)
     ELSE IF err2 # NoError THEN Fails(op, id, data, err2)
     ELSE IF RepoUpdateReturns(tasks, id, data, now) = <<>>
       THEN Fails(op, id, data, TaskNotFound)
     ELSE
       /\ tasks' = RepoUpdate(tasks, id, data, now)
       /\ last' = Outcome(op, id, data, NoError,
                          RepoUpdateReturns(tasks, id, data, now))
       /\ pristine' = Forget(id)
       /\ UNCHANGED <<nextId, now, issued, removed, inflight>>

UpdateTask(id, data) == UpdateTaskAs("updateTask", id, data)

DeleteTask(id) ==
  LET err == ValidateId(id) IN
  /\ IF err # NoError THEN Fails("deleteTask", id, NoData, err)
     ELSE IF ~RepoDeleteReturns(tasks, id)
       THEN Fails("deleteTask", id, NoData, TaskNotFound)
     ELSE
       /\ tasks' = RepoDelete(tasks, id)
       /\ last' = Outcome("deleteTask", id, NoData, NoError, <<>>)
       /\ pristine' = Forget(id)
       /\ removed' = removed \cup {id}
       /\ UNCHANGED <<nextId, now, issued, inflight>>

StatusOnly(status) ==
  [title |-> Undefined, description |-> Undefined, status |-> status]

MarkTaskAsDone(id) == UpdateTaskAs("markTaskAsDone", id, StatusOnly(DONE))

\* as MarkTaskAsInProgress, with the status of markTaskAsDone
MarkTaskAsInProgress_Done(id) ==
  UpdateTaskAs("markTaskAsInProgress", id, StatusOnly(DONE))

MarkTaskAsInProgress(id) ==
  UpdateTaskAs("markTaskAsInProgress", id, StatusOnly(IN_PROGRESS))

MarkTaskAsPending(id) ==
  UpdateTaskAs("markTaskAsPending", id, StatusOnly(PENDING))

GetAllTasks ==
  /\ last' = Outcome("getAllTasks", Undefined, NoData, NoError,
                     RepoFindAll(tasks))
  /\ UNCHANGED <<tasks, nextId, now, pristine, issued, removed, inflight>>

ValidateStatus(status) ==
  IF ~IsValidStatus(status) THEN TaskError("INVALID_STATUS", BadRequest)
  ELSE NoError

GetTasksByStatus(status) ==
  LET err == ValidateStatus(status) IN
  /\ IF err # NoError
       THEN Fails("getTasksByStatus", Undefined, StatusOnly(status), err)
     ELSE
       /\ last' = Outcome("getTasksByStatus", Undefined, StatusOnly(status),
                          NoError, RepoFindByStatus(tasks, status))
       /\ UNCHANGED <<tasks, nextId, now, pristine, issued, removed, inflight>>

\* ------------------------------------------------- Number arithmetic
\* a Number that is not negative is sig * 2^exp, where the significand sig
\* has at most Precision bits and is held as three digits of LimbBits bits,
\* the lowest first
LimbBits == 23

RECURSIVE Power2(_)
Power2(k) == IF k = 0 THEN 1 ELSE 2 * Power2(k - 1)

Limb == Power2(LimbBits)

NoBits == <<0, 0, 0>>

Zero == [sig |-> NoBits, exp |-> 0]

RECURSIVE IntBitLength(_)
IntBitLength(n) == IF n = 0 THEN 0 ELSE 1 + IntBitLength(n \div 2)

BitLength(a) ==
  IF a[3] # 0 THEN 2 * LimbBits + IntBitLength(a[3])
  ELSE IF a[2] # 0 THEN LimbBits + IntBitLength(a[2])
  ELSE IntBitLength(a[1])

\* a with its k lowest bits dropped
RECURSIVE ShiftRight(_, _)
ShiftRight(a, k) ==
  IF k >= LimbBits THEN ShiftRight(<<a[2], a[3], 0>>, k - LimbBits)
  ELSE LET low == Power2(k)
           high == Power2(LimbBits - k) IN
       << a[1] \div low + (a[2] % low) * high,
          a[2] \div low + (a[3] % low) * high,
          a[3] \div low >>

\* whether one of the k lowest bits of a is set
LowBits(a, k) == \E i \in 0..(k - 1) : ShiftRight(a, i)[1] % 2 = 1

Increment(a) ==
  IF a[1] + 1 < Limb THEN <<a[1] + 1, a[2], a[3]>>
  ELSE IF a[2] + 1 < Limb THEN <<0, a[2] + 1, a[3]>>
  ELSE <<0, 0, a[3] + 1>>

\* a * 2^exp, and something more below its lowest bit if sticky, rounded to
\* Precision bits: to the nearest, and to the even one of two that are
\* equally near
RoundToPrecision(a, sticky, exp) ==
  IF BitLength(a) <= Precision THEN [sig |-> a, exp |-> exp]
  ELSE LET k == BitLength(a) - Precision
           kept == ShiftRight(a, k)
           half == ShiftRight(a, k - 1)[1] % 2 = 1
           below == sticky \/ LowBits(a, k - 1)
           up == half /\ (below \/ kept[1] % 2 = 1)
           r == IF up THEN Increment(kept) ELSE kept IN
       IF BitLength(r) > Precision
         THEN [sig |-> ShiftRight(r, 1), exp |-> exp + k + 1]
       ELSE [sig |-> r, exp |-> exp + k]

\* num / den for integers num >= 0 and den > 0 of at most 8 bits: the
\* quotient is developed digit by digit to 3 * LimbBits bits after the point
Divide(num, den) ==
  IF num = 0 THEN Zero
  ELSE IF num = den THEN [sig |-> <<1, 0, 0>>, exp |-> 0]
  ELSE LET d3 == (num * Limb) \div den
           r3 == (num * Limb) % den
           d2 == (r3 * Limb) \div den
           r2 == (r3 * Limb) % den
           d1 == (r2 * Limb) \div den
           r1 == (r2 * Limb) % den IN
       RoundToPrecision(<<d1, d2, d3>>, r1 # 0, -(3 * LimbBits))

\* x * n for an integer n > 0
Times(x, n) ==
  LET p1 == x.sig[1] * n
      p2 == x.sig[2] * n + p1 \div Limb
      p3 == x.sig[3] * n + p2 \div Limb IN
  IF x = Zero THEN Zero
  ELSE RoundToPrecision(<<p1 % Limb, p2 % Limb, p3>>, FALSE, x.exp)

\* Math.round(x): the nearest integer, the upper one of two that are
\* equally near
MathRound(x) ==
  IF x.exp >= 0 THEN x.sig[1] * Power2(x.exp)
  ELSE ShiftRight(x.sig, -x.exp)[1]
       + (ShiftRight(x.sig, -x.exp - 1)[1] % 2)

\* completionRate in hundredths of a percent: the Number the code returns
\* is this integer divided by 100
CompletionRate(done, total) ==
  MathRound(Times(IF total > 0 THEN Times(Divide(done, total), Hundred)
                  ELSE Zero, Hundred))

\* the statistics the service returns for the four counts it has read
Statistics(total, pending, inProgress, done) ==
  [total |-> total, pending |-> pending, inProgress |-> inProgress,
   done |-> done, completionRate |-> CompletionRate(done, total)]

GetStatistics ==
  LET total == RepoCount(tasks)
      pending == RepoCountByStatus(tasks, PENDING)
      inProgress == RepoCountByStatus(tasks, IN_PROGRESS)
      done == RepoCountByStatus(tasks, DONE) IN
  /\ last' = [Outcome("getStatistics", Undefined, NoData, NoError, <<>>)
               EXCEPT !.stats = Statistics(total, pending, inProgress, done)]
  /\ UNCHANGED <<tasks, nextId, now, pristine, issued, removed, inflight>>

\* a stored task is serialized and built again from its serialization
FromJSONToJSON(id) ==
  /\ MapHas(tasks, id)
  /\ last' = Outcome("fromJSON", id, NoData, NoError,
                     <<FromJSON(ToJSON(MapGet(tasks, id)[1]),
                                Uuid(nextId + 1), now, now)>>)
  /\ UNCHANGED <<tasks, nextId, now, pristine, issued, removed, inflight>>

\* the store is searched by title
FindByTitle(title) ==
  /\ last' = Outcome("findByTitle", Undefined,
                     [NoData EXCEPT !.title = title], NoError,
                     RepoFindByTitle(tasks, title))
  /\ UNCHANGED <<tasks, nextId, now, pristine, issued, removed, inflight>>

\* the controller hands the outcome of the call to the client
Respond ==
  /\ ~Idle
  /\ last' = NoOutcome
  /\ UNCHANGED <<tasks, nextId, now, pristine, issued, removed, inflight>>

\* the clock advances between two calls
Tick ==
  /\ Idle
  /\ now < MaxTime
  /\ now' = now + 1
  /\ UNCHANGED <<tasks, nextId, last, pristine, issued, removed, inflight>>

\* ------------------------------------------------------- specifications
Init ==
  /\ tasks = <<>>
  /\ nextId = 0
  /\ now = 0
  /\ last = NoOutcome
  /\ pristine = {}
  /\ issued = {}
  /\ removed = {}
  /\ inflight = NoRequest

\* a call is made when the previous one has been answered, and one that
\* stores a task only while identifiers are left
Creates(data, limit) ==
  ValidateCreateData(data) = NoError => nextId < limit

DoCreateTask ==
  Idle /\ \E data \in SomeDataInputs : Creates(data, MaxTasks) /\ CreateTask(data)

DoGetTaskById == Idle /\ \E id \in IdInputs : GetTaskById(id)

DoUpdateTask ==
  Idle /\ \E id \in IdInputs : \E data \in SomeDataInputs : UpdateTask(id, data)

DoDeleteTask == Idle /\ \E id \in IdInputs : DeleteTask(id)

DoMarkTaskAsDone == Idle /\ \E id \in IdInputs : MarkTaskAsDone(id)

DoMarkTaskAsInProgress == Idle /\ \E id \in IdInputs : MarkTaskAsInProgress(id)

DoMarkTaskAsPending == Idle /\ \E id \in IdInputs : MarkTaskAsPending(id)

DoGetAllTasks == Idle /\ GetAllTasks

DoGetTasksByStatus ==
  Idle /\ \E status \in QueryStatusInputs : GetTasksByStatus(status)

DoGetStatistics == Idle /\ GetStatistics

DoFromJSONToJSON == Idle /\ \E id \in IdInputs : FromJSONToJSON(id)

\* any sequence of service calls, over several tasks
Next ==
  \/ DoCreateTask
  \/ DoGetTaskById
  \/ DoUpdateTask
  \/ DoDeleteTask
  \/ DoMarkTaskAsDone
  \/ DoMarkTaskAsInProgress
  \/ DoMarkTaskAsPending
  \/ DoGetAllTasks
  \/ DoGetTasksByStatus
  \/ DoGetStatistics
  \/ DoFromJSONToJSON
  \/ Respond
  \/ Tick

Spec == Init /\ [][Next]_vars

\* the caller of createTask kept the Task it was handed, which is the
\* object the Map holds, and calls markAsDone on it
HeldMarkAsDone(id) ==
  /\ id \in issued
  /\ MapHas(tasks, id)
  /\ tasks' = MapSet(tasks, id, TaskMarkAsDone(MapGet(tasks, id)[1], now))
  /\ pristine' = Forget(id)
  /\ UNCHANGED <<nextId, now, last, issued, removed, inflight>>

DoHeldMarkAsDone == Idle /\ \E id \in IdInputs : HeldMarkAsDone(id)

\* the service calls of a caller that keeps the tasks it is handed
NextOwnership ==
  \/ DoCreateTask
  \/ DoGetTaskById
  \/ DoGetAllTasks
  \/ DoDeleteTask
  \/ DoHeldMarkAsDone
  \/ Respond
  \/ Tick

SpecOwnership == Init /\ [][NextOwnership]_vars

DoCreateTitled ==
  Idle /\ \E title \in StoredTitleInputs :
            LET data == [title |-> title,
                         description |-> Str(<<Run("d", 1)>>),
                         status |-> Undefined] IN
            Creates(data, MaxTasks) /\ CreateTask(data)

DoFindByTitle == Idle /\ \E title \in SearchInputs : FindByTitle(title)

\* searches by title, on stores of tasks with several titles
NextTitles ==
  \/ DoCreateTitled
  \/ DoFindByTitle
  \/ Respond

SpecTitles == Init /\ [][NextTitles]_vars

\* ---------------------------------------------- calls that interleave
\* the data of the updates that are followed through their await
InterleavedDataInputs == { NoData, StatusOnly(DONE) }

\* updateTask up to the await of findById in the repository's update: the
\* arguments are validated and the task is looked up
UpdateTaskCalled(id, data) ==
  /\ inflight = NoRequest
  /\ ValidateId(id) = NoError
  /\ ValidateUpdateData(data) = NoError
  /\ inflight' = [op |-> "updateTask", id |-> id, data |-> data,
                  found |-> RepoFindById(tasks, id), reads |-> <<>>]
  /\ UNCHANGED <<tasks, nextId, now, last, pristine, issued, removed>>

\* updateTask from the await on: the task that was found is updated and set
\* in the Map under its id, whether the Map still holds it or not
UpdateTaskResumes ==
  LET id == inflight.id
      data == inflight.data
      task == IF MapHas(tasks, id) THEN MapGet(tasks, id)[1]
              ELSE inflight.found[1] IN
  /\ inflight.op = "updateTask"
  /\ inflight' = NoRequest
  /\ IF inflight.found = <<>>
       THEN /\ last' = Outcome("updateTask", id, data, TaskNotFound, <<>>)
            /\ UNCHANGED <<tasks, nextId, now, pristine, issued, removed>>
     ELSE
       /\ tasks' = MapSet(tasks, id, TaskUpdate(task, data, now))
       /\ last' = Outcome("updateTask", id, data, NoError,
                          <<TaskUpdate(task, data, now)>>)
       /\ pristine' = Forget(id)
       /\ UNCHANGED <<nextId, now, issued, removed>>

\* getStatistics up to its first await: count() has read the size of the Map
GetStatisticsCalled ==
  /\ inflight = NoRequest
  /\ inflight' = [NoRequest EXCEPT !.op = "getStatistics",
                                   !.reads = <<RepoCount(tasks)>>]
  /\ UNCHANGED <<tasks, nextId, now, last, pristine, issued, removed>>

\* getStatistics resumes and makes its next read: countByStatus of pending,
\* of in_progress and of done, in this order
GetStatisticsReads ==
  LET status == <<PENDING, IN_PROGRESS, DONE>>[Len(inflight.reads)] IN
  /\ inflight.op = "getStatistics"
  /\ Len(inflight.reads) < 4
  /\ inflight' = [inflight EXCEPT
                    !.reads = Append(@, RepoCountByStatus(tasks, status))]
  /\ UNCHANGED <<tasks, nextId, now, last, pristine, issued, removed>>

\* getStatistics resumes after its last read and returns
GetStatisticsReturns ==
  LET reads == inflight.reads IN
  /\ inflight.op = "getStatistics"
  /\ Len(reads) = 4
  /\ inflight' = NoRequest
  /\ last' = [Outcome("getStatistics", Undefined, NoData, NoError, <<>>)
               EXCEPT !.stats = Statistics(reads[1], reads[2], reads[3],
                                           reads[4])]
  /\ UNCHANGED <<tasks, nextId, now, pristine, issued, removed>>

\* the data of the tasks that are created meanwhile
CreatedDataInputs ==
  { [title |-> Str(<<Run("a", 1)>>), description |-> Str(<<Run("d", 1)>>),
     status |-> status] : status \in { Undefined, DONE } }

DoCreateMeanwhile ==
  Idle /\ \E data \in CreatedDataInputs :
            Creates(data, MaxTasks) /\ CreateTask(data)

DoUpdateTaskCalled ==
  Idle /\ \E id \in IdInputs : \E data \in InterleavedDataInputs :
            UpdateTaskCalled(id, data)

DoUpdateTaskResumes == Idle /\ UpdateTaskResumes

DoGetStatisticsCalled == Idle /\ GetStatisticsCalled

DoGetStatisticsReads == Idle /\ GetStatisticsReads

DoGetStatisticsReturns == Idle /\ GetStatisticsReturns

\* service calls of which one, an updateTask or a getStatistics, is
\* suspended at its awaits while others are made
NextInterleaved ==
  \/ DoCreateMeanwhile
  \/ DoGetTaskById
  \/ DoDeleteTask
  \/ DoUpdateTaskCalled
  \/ DoUpdateTaskResumes
  \/ DoGetStatisticsCalled
  \/ DoGetStatisticsReads
  \/ DoGetStatisticsReturns
  \/ Respond

SpecInterleaved == Init /\ [][NextInterleaved]_vars

\* every input of a call, on a store of at most one task
AnyCreateTask ==
  Idle /\ \E data \in DataInputs : Creates(data, 1) /\ CreateTask(data)

AnyUpdateTask ==
  Idle /\ \E id \in FewIdInputs : \E data \in DataInputs : UpdateTask(id, data)

AnyGetTaskById == Idle /\ \E id \in FewIdInputs : GetTaskById(id)

AnyDeleteTask == Idle /\ \E id \in FewIdInputs : DeleteTask(id)

AnyMarkTaskAsDone == Idle /\ \E id \in FewIdInputs : MarkTaskAsDone(id)

AnyMarkTaskAsInProgress ==
  Idle /\ \E id \in FewIdInputs : MarkTaskAsInProgress(id)

AnyMarkTaskAsPending == Idle /\ \E id \in FewIdInputs : MarkTaskAsPending(id)

NextInputs ==
  \/ AnyCreateTask
  \/ AnyUpdateTask
  \/ AnyGetTaskById
  \/ AnyDeleteTask
  \/ AnyMarkTaskAsDone
  \/ AnyMarkTaskAsInProgress
  \/ AnyMarkTaskAsPending
  \/ Respond

SpecInputs == Init /\ [][NextInputs]_vars

\* the statistics of given counts: total tasks, of which done are done and
\* the others pending
AnyStatistics ==
  /\ Idle
  /\ \E total \in 0..MaxStored : \E done \in 0..total :
       last' = [Outcome("statistics", Undefined, NoData, NoError, <<>>)
                 EXCEPT !.stats = Statistics(total, total - done, 0, done)]
  /\ UNCHANGED <<tasks, nextId, now, pristine, issued, removed, inflight>>

\* the statistics for every number of tasks up to MaxStored
NextStatistics ==
  \/ AnyStatistics
  \/ Respond

SpecStatistics == Init /\ [][NextStatistics]_vars

\* ------------------------------------------------------------- claims
\* the validation rules as the specification states them, field by field
IsString(v) == v.kind = "string"

Blank(v) == ~IsString(v) \/ Length(Trim(v)) = 0

GoodTitle(v) ==
  IsString(v) /\ Length(Trim(v)) > 0 /\ Length(v) <= MaxTitleLength

GoodDescription(v) ==
  IsString(v) /\ Length(Trim(v)) > 0 /\ Length(v) <= MaxDescriptionLength

GoodStatus(v) == v \in {PENDING, IN_PROGRESS, DONE}

Rejected(code) ==
  /\ last.kind = "TaskError"
  /\ last.code = code
  /\ last.statusCode = BadRequest
  /\ last.result = <<>>

Stored == { tasks[i] : i \in 1..Len(tasks) }

\* C1: in every reachable state every task held by the store has a status
\* that is one of pending, in_progress, done.
C1_StatusIsEnumerated == \A t \in Stored : GoodStatus(t.status)

\* C2: in every reachable state every stored task has a title of trimmed
\* length > 0 and length <= 200, and a description of trimmed length > 0
\* and length <= 2000.
C2_TitleAndDescriptionValid ==
  \A t \in Stored : GoodTitle(t.title) /\ GoodDescription(t.description)

\* C2 witness: a task with the longest title and description is stored,
\* and an update that gave a new title has just gone through
C2_Witness ==
  /\ last.op = "updateTask"
  /\ last.kind = "ok"
  /\ IsString(last.data.title)
  /\ \E t \in Stored :
       /\ Length(t.title) = MaxTitleLength
       /\ Length(t.description) = MaxDescriptionLength

\* C3: createTask with a valid input (valid title and description, status
\* omitted or enumerated) returns and stores a task with the title and
\* description of the input and with status pending when the status is
\* omitted, the given status otherwise.
C3_CreateReturnsInput ==
  ( /\ last.op = "createTask"
    /\ GoodTitle(last.data.title)
    /\ GoodDescription(last.data.description)
    /\ (last.data.status = Undefined \/ GoodStatus(last.data.status)) )
  => /\ last.kind = "ok"
     /\ Len(last.result) = 1
     /\ last.result[1].title = last.data.title
     /\ last.result[1].description = last.data.description
     /\ last.result[1].status = IF last.data.status = Undefined THEN PENDING
                                ELSE last.data.status
     /\ last.result[1] \in Stored

\* C3 witness: a task was created with a given status other than pending
C3_Witness ==
  /\ last.op = "createTask"
  /\ last.kind = "ok"
  /\ last.data.status = DONE
  /\ last.result[1].status = DONE
  /\ Length(last.data.title) = MaxTitleLength

\* C4: createTask with a title that is missing or of trimmed length 0 fails
\* with INVALID_TITLE (400) and creates no task.
C4_BlankTitleRejected ==
  [][ (last'.op = "createTask" /\ Blank(last'.data.title))
      => /\ last'.kind = "TaskError"
         /\ last'.code = "INVALID_TITLE"
         /\ last'.statusCode = BadRequest
         /\ last'.result = <<>>
         /\ tasks' = tasks
         /\ nextId' = nextId ]_vars

\* C4 witness: a white-space title was refused while a task is stored
C4_Witness ==
  /\ last.op = "createTask"
  /\ last.data.title = Str(<<Run(" ", 1)>>)
  /\ GoodDescription(last.data.description)
  /\ Rejected("INVALID_TITLE")
  /\ Len(tasks) = 1

\* C5 as stated: createTask with a description that is missing or of
\* trimmed length 0 fails with INVALID_DESCRIPTION (400), whatever the title.
C5_BlankDescriptionRejectedWhateverTitle ==
  (last.op = "createTask" /\ Blank(last.data.description))
  => Rejected("INVALID_DESCRIPTION")

\* C5 amended: createTask with a title that passes validation (trimmed
\* length > 0, length <= 200) and a description that is missing or of
\* trimmed length 0 fails with INVALID_DESCRIPTION (400) and creates no task.
C5_BlankDescriptionRejected ==
  [][ ( /\ last'.op = "createTask"
        /\ GoodTitle(last'.data.title)
        /\ Blank(last'.data.description) )
      => /\ last'.kind = "TaskError"
         /\ last'.code = "INVALID_DESCRIPTION"
         /\ last'.statusCode = BadRequest
         /\ last'.result = <<>>
         /\ tasks' = tasks
         /\ nextId' = nextId ]_vars

\* C5 witness: a white-space description was refused under the longest title
C5_Witness ==
  /\ last.op = "createTask"
  /\ Length(last.data.title) = MaxTitleLength
  /\ last.data.description = Str(<<Run("\t", 1)>>)
  /\ Rejected("INVALID_DESCRIPTION")
  /\ Len(tasks) = 1

\* the call of C6 and C7: createTask, or updateTask with a non-blank id
CreateOrUpdate ==
  \/ last.op = "createTask"
  \/ last.op = "updateTask" /\ ~Blank(last.id)

\* the title lets the validation reach the description
TitlePasses ==
  \/ GoodTitle(last.data.title)
  \/ last.op = "updateTask" /\ last.data.title = Undefined

\* the call went through validation (an update may still miss its task)
Accepted ==
  \/ last.kind = "ok"
  \/ last.op = "updateTask" /\ last.code = "TASK_NOT_FOUND"

AtTheLimits ==
  /\ GoodTitle(last.data.title)
  /\ Length(last.data.title) = MaxTitleLength
  /\ GoodDescription(last.data.description)
  /\ Length(last.data.description) = MaxDescriptionLength
  /\ (last.data.status = Undefined \/ GoodStatus(last.data.status))

ValidData == [title |-> Str(<<Run("a", 1)>>),
              description |-> Str(<<Run("d", 1)>>),
              status |-> Undefined]

Present(data) == { f \in {"title", "description", "status"} :
                   data[f] # Undefined }

\* C7: updateTask on an existing id with one field set to v is rejected if
\* and only if createTask with v for that field (other fields valid) is
\* rejected, and with the same error; absent fields never cause a rejection.
C7_UpdateValidatesAsCreate ==
  (last.op = "updateTask" /\ MapHas(tasks, last.id)) =>
    /\ Present(last.data) = {} => last.kind = "ok"
    /\ \A f \in {"title", "description", "status"} :
         Present(last.data) = {f} =>
           LET create == ValidateCreateData(
                           [ValidData EXCEPT ![f] = last.data[f]]) IN
           /\ last.kind = create.kind
           /\ last.code = create.code

\* the calls that take an id
IdCalls == {"getTaskById", "updateTask", "deleteTask", "markTaskAsDone",
            "markTaskAsInProgress", "markTaskAsPending"}

\* C8: getTaskById, updateTask, deleteTask and the mark* calls with an empty
\* id (or one of white space only) fail with INVALID_ID (400), never with
\* TASK_NOT_FOUND, and leave the store as it was.
C8_EmptyIdRejected ==
  [][ (last'.op \in IdCalls /\ Length(Trim(last'.id)) = 0)
      => /\ last'.kind = "TaskError"
         /\ last'.code = "INVALID_ID"
         /\ last'.statusCode = BadRequest
         /\ last'.result = <<>>
         /\ tasks' = tasks ]_vars

\* C8 witness: a delete with the empty id was refused while a task is stored
C8_Witness ==
  /\ last.op = "deleteTask"
  /\ last.id = Str(<<>>)
  /\ Rejected("INVALID_ID")
  /\ Len(tasks) = 1

\* C9: while no update or delete of its id has happened, a task returned by
\* createTask is what the store holds under that id, and getTaskById(id)
\* succeeds with a task equal to it in id, title, description, status,
\* createdAt and updatedAt.
C9_CreateReadRoundTrip ==
  /\ \A t \in pristine : RepoFindById(tasks, t.id) = <<t>>
  /\ (last.op = "getTaskById" /\ \E t \in pristine : t.id = last.id)
     => /\ last.kind = "ok"
        /\ Len(last.result) = 1
        /\ last.result[1] \in pristine

\* C9 witness: the second task is read back as created, after the first one
\* was updated and the clock has moved on
C9_Witness ==
  /\ last.op = "getTaskById"
  /\ last.kind = "ok"
  /\ last.id = Uuid(2)
  /\ last.result[1] \in pristine
  /\ Len(tasks) = 2
  /\ tasks[1] \notin pristine
  /\ now > last.result[1].updatedAt

\* C10: a successful updateTask(id, partial) overwrites the fields present
\* in the partial and updatedAt; id, createdAt and the absent fields keep
\* their values, every other task is unchanged, and so is the task count.
C10_UpdateFrame ==
  [][ (last'.op = "updateTask" /\ last'.kind = "ok") =>
      LET id == last'.id
          data == last'.data
          old == RepoFindById(tasks, id)
          new == RepoFindById(tasks', id) IN
      /\ Len(old) = 1
      /\ Len(new) = 1
      /\ last'.result = new
      /\ new[1].id = old[1].id
      /\ new[1].createdAt = old[1].createdAt
      /\ new[1].updatedAt = now'
      /\ \A f \in {"title", "description", "status"} :
           new[1][f] = IF f \in Present(data) THEN data[f] ELSE old[1][f]
      /\ Len(tasks') = Len(tasks)
      /\ \A i \in 1..Len(tasks) : tasks[i].id # id => tasks'[i] = tasks[i]
    ]_vars

\* C10 witness: of two stored tasks the second got a new status only, later
\* than it was created
C10_Witness ==
  /\ last.op = "updateTask"
  /\ last.kind = "ok"
  /\ last.id = Uuid(2)
  /\ Present(last.data) = {"status"}
  /\ Len(tasks) = 2
  /\ tasks[2].status = DONE
  /\ tasks[2].updatedAt > tasks[2].createdAt

\* the calls that update a task
UpdateCalls == {"updateTask", "markTaskAsDone", "markTaskAsInProgress",
                "markTaskAsPending"}

\* the step is a call of one of ops that succeeds
Succeeds(ops) == Idle /\ last'.op \in ops /\ last'.kind = "ok"

\* the task of the call, before and after it
Before == RepoFindById(tasks, last'.id)[1]

After == RepoFindById(tasks', last'.id)[1]

\* C11 as stated: after every successful updateTask or mark* call, whatever
\* the partial, the task's updatedAt is strictly greater than before the call.
C11_UpdatedAtStrictlyGreater ==
  [][ Succeeds(UpdateCalls) => After.updatedAt > Before.updatedAt ]_vars

\* C11 amended: after every successful updateTask or mark* call, whatever
\* the partial, the task's updatedAt is the reading of the clock at the
\* call: never less than before the call, and strictly greater whenever the
\* clock has advanced since updatedAt was last set.
C11_UpdatedAtFollowsClock ==
  [][ Succeeds(UpdateCalls) =>
      /\ After.updatedAt >= Before.updatedAt
      /\ now > Before.updatedAt => After.updatedAt > Before.updatedAt
    ]_vars

\* C11 witness: an update with an empty partial went through later than the
\* task was created
C11_Witness ==
  /\ last.op = "updateTask"
  /\ last.kind = "ok"
  /\ Present(last.data) = {}
  /\ last.result[1].updatedAt > last.result[1].createdAt

\* C12: in every reachable state every stored task has updatedAt >=
\* createdAt, and no update sets a task's updatedAt to a value earlier than
\* the one it had before that update.
C12_UpdatedAtNeverEarlier ==
  /\ [](\A t \in Stored : t.updatedAt >= t.createdAt)
  /\ [][ \A i \in 1..Len(tasks) : \A j \in 1..Len(tasks') :
           tasks'[j].id = tasks[i].id
             => tasks'[j].updatedAt >= tasks[i].updatedAt ]_vars

\* C12 witness: of two stored tasks one was stamped by two different clock
\* readings at its creation, and a mark* call has just stamped the other one
\* later than it was created
C12_Witness ==
  /\ last.op = "markTaskAsDone"
  /\ last.kind = "ok"
  /\ Len(tasks) = 2
  /\ last.result[1].updatedAt > last.result[1].createdAt
  /\ \E t \in Stored : t.id # last.id /\ t \in pristine
                       /\ t.updatedAt > t.createdAt

\* a partial that passes the validation rules: each field is absent or valid
ValidPartial(data) ==
  /\ (data.title = Undefined \/ GoodTitle(data.title))
  /\ (data.description = Undefined \/ GoodDescription(data.description))
  /\ (data.status = Undefined \/ GoodStatus(data.status))

\* the outcome of the call of the step is TASK_NOT_FOUND (404)
NotFoundAfter ==
  /\ last'.kind = "TaskError"
  /\ last'.code = "TASK_NOT_FOUND"
  /\ last'.statusCode = NotFound

C14_AbsentIdNotFound ==
  [][ ( /\ Idle
        /\ last'.op \in {"getTaskById", "deleteTask", "updateTask"}
        /\ ~Blank(last'.id)
        /\ ~MapHas(tasks, last'.id)
        /\ ValidPartial(last'.data) )
      => /\ NotFoundAfter
         /\ last'.result = <<>>
         /\ tasks' = tasks
         /\ RepoUpdateReturns(tasks, last'.id, last'.data, now) = <<>>
         /\ RepoUpdate(tasks, last'.id, last'.data, now) = tasks
         /\ RepoDeleteReturns(tasks, last'.id) = FALSE
         /\ RepoDelete(tasks, last'.id) = tasks
    ]_vars

\* C14 witness: while a task is stored, an update with the empty partial of
\* an id that was never handed out was answered TASK_NOT_FOUND (404)
C14_Witness ==
  /\ last.op = "updateTask"
  /\ last.id = Uuid(2)
  /\ Present(last.data) = {}
  /\ last.code = "TASK_NOT_FOUND"
  /\ last.statusCode = NotFound
  /\ Len(tasks) = 1

\* C15: the store's delete(id) returns true if and only if a record with
\* that id was in the store at the call; when it returns true exactly that
\* record is removed and all others are unchanged, and when it returns false
\* the store is unchanged.
C15_DeleteReturnsWhetherStored ==
  [][ (Idle /\ last'.op = "deleteTask" /\ ~Blank(last'.id)) =>
      LET id == last'.id
          was == \E t \in Stored : t.id = id IN
      /\ RepoDeleteReturns(tasks, id) = was
      /\ (last'.kind = "ok") = was
      /\ was => /\ tasks' = SelectSeq(tasks, LAMBDA e : e.id # id)
                /\ Len(tasks') = Len(tasks) - 1
      /\ ~was => tasks' = tasks
    ]_vars

\* C15 witness: of two stored tasks the second was deleted and the first is
\* still as it was created
C15_Witness ==
  /\ last.op = "deleteTask"
  /\ last.kind = "ok"
  /\ last.id = Uuid(2)
  /\ Len(tasks) = 1
  /\ tasks[1].id = Uuid(1)
  /\ tasks[1] \in pristine

\* how many stored tasks have the given status
NumberWithStatus(status) ==
  Cardinality({ i \in 1..Len(tasks) : tasks[i].status = status })

\* C16: after any sequence of create, update and delete calls, getStatistics
\* returns total = the number of stored tasks, and pending, inProgress and
\* done = the number of stored tasks with status pending, in_progress and
\* done; on an empty store all five fields are 0.
C16_StatisticsCountTheStore ==
  last.op = "getStatistics" =>
    /\ last.kind = "ok"
    /\ last.stats.total = Cardinality(DOMAIN tasks)
    /\ last.stats.pending = NumberWithStatus(PENDING)
    /\ last.stats.inProgress = NumberWithStatus(IN_PROGRESS)
    /\ last.stats.done = NumberWithStatus(DONE)
    /\ tasks = <<>> =>
         last.stats = [total |-> 0, pending |-> 0, inProgress |-> 0,
                       done |-> 0, completionRate |-> 0]

\* C16 witness: the statistics of a store of one task in progress and one
\* done
C16_Witness ==
  /\ last.op = "getStatistics"
  /\ last.stats.total = 2
  /\ last.stats.pending = 0
  /\ last.stats.inProgress = 1
  /\ last.stats.done = 1

\* r hundredths is num / den rounded to the nearest hundredth, half up
NearestHalfUp(r, num, den) ==
  /\ 2 * r * den - den <= 2 * num * Hundred
  /\ 2 * num * Hundred < 2 * r * den + den

\* C17: the completionRate of getStatistics is 0 when total is 0 and else
\* done / total * 100 rounded to the nearest 0.01, half up: 33.33 for 1 of
\* 3, 66.67 for 2 of 3, 25 for 1 of 4.
C17_CompletionRateRounded ==
  last.op \in {"getStatistics", "statistics"} =>
    LET total == last.stats.total
        done == last.stats.done
        rate == last.stats.completionRate IN
    /\ total = 0 => rate = 0
    /\ total > 0 => NearestHalfUp(rate, done * Hundred, total)
    /\ (done = 1 /\ total = 3) => rate = 3333
    /\ (done = 2 /\ total = 3) => rate = 6667
    /\ (done = 1 /\ total = 4) => rate = 2500

\* C18: getTasksByStatus(s) fails with INVALID_STATUS (400) when s is not
\* one of the three enumerated values, and otherwise returns exactly the
\* stored tasks whose status is s, each once (none when none match); it
\* does not change the store.
C18_TasksByStatusExact ==
  [][ (Idle /\ last'.op = "getTasksByStatus") =>
      LET s == last'.data.status
          found == last'.result IN
      /\ tasks' = tasks
      /\ IF ~GoodStatus(s)
           THEN /\ last'.kind = "TaskError"
                /\ last'.code = "INVALID_STATUS"
                /\ last'.statusCode = BadRequest
                /\ found = <<>>
         ELSE /\ last'.kind = "ok"
              /\ { found[i] : i \in 1..Len(found) }
                   = { t \in Stored : t.status = s }
              /\ Len(found) = Cardinality({ t \in Stored : t.status = s })
    ]_vars

\* C18 witness: of two stored tasks the one that is done was returned
C18_Witness ==
  /\ last.op = "getTasksByStatus"
  /\ last.data.status = DONE
  /\ Len(tasks) = 2
  /\ Len(last.result) = 1
  /\ last.result[1] \in Stored

\* the codes of the validation errors
ValidationCodes ==
  {"INVALID_TITLE", "TITLE_TOO_LONG", "INVALID_DESCRIPTION",
   "DESCRIPTION_TOO_LONG", "INVALID_STATUS", "INVALID_ID"}

\* C19: every error the service raises as a TaskError carries a code and a
\* status: 404 if and only if the code is TASK_NOT_FOUND, 400 for
\* INVALID_TITLE, TITLE_TOO_LONG, INVALID_DESCRIPTION, DESCRIPTION_TOO_LONG,
\* INVALID_STATUS and INVALID_ID; the error handler replies with that status
\* for a TaskError and with 500 for any other error.
C19_ErrorsCarryCodeAndStatus ==
  /\ last.kind = "TaskError" =>
       /\ last.code \in ValidationCodes \cup {"TASK_NOT_FOUND"}
       /\ (last.statusCode = NotFound) = (last.code = "TASK_NOT_FOUND")
       /\ last.code \in ValidationCodes => last.statusCode = BadRequest
       /\ last.reply = last.statusCode
  /\ last.kind \notin {"ok", "TaskError"} =>
       last.reply = InternalServerError

\* C19 witness: a mark* call of an id that is not stored was answered with
\* TASK_NOT_FOUND and the reply has status 404
C19_Witness ==
  /\ last.op = "markTaskAsDone"
  /\ last.kind = "TaskError"
  /\ last.code = "TASK_NOT_FOUND"
  /\ last.reply = NotFound

StoreCalls == {"createTask", "deleteTask"} \cup UpdateCalls

\* C21: the content of the store changes only through the store operations
\* create, update, delete: a Task that createTask, getTaskById or
\* getAllTasks handed to a caller cannot be used to change what a later
\* findById returns.
C21_StoreOwnsRecords ==
  [][ tasks' # tasks => Succeeds(StoreCalls) ]_vars

\* C22: immediately after its creation a task's createdAt equals its
\* updatedAt.
C22_CreatedAtEqualsUpdatedAt ==
  (last.op = "createTask" /\ last.kind = "ok")
  => last.result[1].createdAt = last.result[1].updatedAt

\* C23: for every task t, fromJSON(toJSON(t)) has the id, title,
\* description, status, createdAt and updatedAt of t, and toJSON(t) has
\* all six keys.
C23_SerializationRoundTrip ==
  last.op = "fromJSON" =>
    \E t \in Stored :
      /\ t.id = last.id
      /\ last.result = <<t>>
      /\ DOMAIN ToJSON(t) = {"id", "title", "description", "status",
                             "createdAt", "updatedAt"}

\* the status a mark* call sets
Target(op) ==
  IF op = "markTaskAsDone" THEN DONE
  ELSE IF op = "markTaskAsInProgress" THEN IN_PROGRESS
  ELSE PENDING

\* C24: from any current status, markAsDone / markAsInProgress /
\* markAsPending on the entity has the effect of update({status: X}), and
\* the service's markTaskAsDone/InProgress/Pending(id) is updateTask(id,
\* {status: X}): INVALID_ID on an empty id, TASK_NOT_FOUND on an absent one,
\* and else the task with status X and updatedAt refreshed, nothing else
\* changed.
C24_MarkIsStatusUpdate ==
  /\ [](\A t \in Stored :
          /\ TaskMarkAsDone(t, now) = TaskUpdate(t, StatusOnly(DONE), now)
          /\ TaskMarkAsInProgress(t, now)
               = TaskUpdate(t, StatusOnly(IN_PROGRESS), now)
          /\ TaskMarkAsPending(t, now)
               = TaskUpdate(t, StatusOnly(PENDING), now))
  /\ [][ ( /\ Idle
           /\ last'.op \in {"markTaskAsDone", "markTaskAsInProgress",
                            "markTaskAsPending"} ) =>
         LET id == last'.id
             X == Target(last'.op) IN
         /\ last'.data = [title |-> Undefined, description |-> Undefined,
                          status |-> X]
         /\ IF Blank(id)
              THEN /\ last'.kind = "TaskError"
                   /\ last'.code = "INVALID_ID"
                   /\ last'.statusCode = BadRequest
                   /\ tasks' = tasks
            ELSE IF ~MapHas(tasks, id)
              THEN NotFoundAfter /\ tasks' = tasks
            ELSE /\ last'.kind = "ok"
                 /\ last'.result = <<[Before EXCEPT !.status = X,
                                                    !.updatedAt = now']>>
                 /\ RepoFindById(tasks', id) = last'.result
                 /\ Len(tasks') = Len(tasks)
                 /\ \A i \in 1..Len(tasks) :
                      tasks[i].id # id => tasks'[i] = tasks[i]
       ]_vars

\* C24 witness: of two stored tasks one was marked as in progress while the
\* other one is pending
C24_Witness ==
  /\ last.op = "markTaskAsInProgress"
  /\ last.kind = "ok"
  /\ Len(tasks) = 2
  /\ last.result[1].status = IN_PROGRESS
  /\ last.result[1] \in Stored
  /\ \E t \in Stored : t.id # last.id /\ t.status = PENDING

\* the letter c without its case
Fold(c) ==
  IF c \in {"A", "a"} THEN "a"
  ELSE IF c \in {"B", "b"} THEN "b"
  ELSE IF c \in {CapitalSigma, SmallSigma, FinalSigma} THEN SmallSigma
  ELSE c

\* title contains search as a substring, the case of the letters ignored
ContainsIgnoringCase(title, search) ==
  LET t == Expand(title.chars)
      s == Expand(search.chars) IN
  \E i \in 0..(Len(t) - Len(s)) :
    \A j \in 1..Len(s) : Fold(t[i + j]) = Fold(s[j])

\* C25: findByTitle(s) returns exactly the stored tasks whose title
\* contains s as a substring when both are compared case-insensitively,
\* each once (none when no title matches), and leaves the store unchanged.
C25_FindByTitleIgnoresCase ==
  [][ (Idle /\ last'.op = "findByTitle") =>
      LET found == last'.result
          matching == { t \in Stored :
                        ContainsIgnoringCase(t.title, last'.data.title) } IN
      /\ tasks' = tasks
      /\ last'.kind = "ok"
      /\ { found[i] : i \in 1..Len(found) } = matching
      /\ Len(found) = Cardinality(matching)
    ]_vars

\* C26: under interleaving, an id whose delete has returned true stays absent
\* from the store from then on, and an updateTask that looked the task up
\* before the delete and resumes after it does not report success
C26_DeleteIsFinalUnderInterleaving ==
  /\ \A id \in removed : ~MapHas(tasks, id)
  /\ (last.op = "updateTask" /\ last.id \in removed) => last.kind # "ok"

\* C27: getStatistics returns a consistent snapshot when other calls run
\* between its four reads: total = pending + inProgress + done, done <= total
\* and completionRate <= 100
C27_StatisticsAreASnapshot ==
  last.op = "getStatistics" =>
    /\ last.stats.total
         = last.stats.pending + last.stats.inProgress + last.stats.done
    /\ last.stats.done <= last.stats.total
    /\ last.stats.completionRate <= Hundred * Hundred

\* C28: in every state of the store reached through service calls, count() is
\* the sum of countByStatus over pending, in_progress and done and the length
\* of findAll(), and a getStatistics that runs without interleaving returns
\* total = pending + inProgress + done with 0 <= completionRate <= 100
C28_CountsAddUp ==
  /\ RepoCount(tasks) = RepoCountByStatus(tasks, PENDING)
                        + RepoCountByStatus(tasks, IN_PROGRESS)
                        + RepoCountByStatus(tasks, DONE)
  /\ RepoCount(tasks) = Len(RepoFindAll(tasks))
  /\ last.op = "getStatistics" =>
       /\ last.stats.total
            = last.stats.pending + last.stats.inProgress + last.stats.done
       /\ last.stats.completionRate \in 0..(Hundred * Hundred)

\* C29: a service call that fails with a TaskError, a validation error or
\* TASK_NOT_FOUND, leaves the store exactly as it was: no record is added,
\* removed or modified, no updatedAt is refreshed and no id is used up
C29_FailureLeavesStore ==
  [][ (Idle /\ last'.kind = "TaskError") =>
        /\ tasks' = tasks
        /\ nextId' = nextId
        /\ pristine' = pristine
        /\ issued' = issued
        /\ removed' = removed
    ]_vars

\* C29 witness: an update of a stored task, made after the clock had moved
\* on from the task's updatedAt, failed with a validation error
C29_Witness ==
  /\ last.op = "updateTask"
  /\ last.kind = "TaskError"
  /\ last.code \in ValidationCodes
  /\ MapHas(tasks, last.id)
  /\ MapGet(tasks, last.id)[1].updatedAt < now
  /\ MapGet(tasks, last.id)[1] \in pristine

\* the rules in the order in which the claim says they are reported
RuleOrder ==
  <<"INVALID_ID", "INVALID_TITLE", "TITLE_TOO_LONG", "INVALID_DESCRIPTION",
    "DESCRIPTION_TOO_LONG", "INVALID_STATUS">>

\* whether the call that ended in last violates the rule of the code: a
\* field that createTask requires is tested always, a field of an update when
\* it is present
Violates(code) ==
  LET data == last.data
      tested(v) == last.op = "createTask" \/ v # Undefined IN
  CASE code = "INVALID_ID" -> last.op = "updateTask" /\ Blank(last.id)
    [] code = "INVALID_TITLE" -> tested(data.title) /\ Blank(data.title)
    [] code = "TITLE_TOO_LONG" ->
         IsString(data.title) /\ Length(data.title) > MaxTitleLength
    [] code = "INVALID_DESCRIPTION" ->
         tested(data.description) /\ Blank(data.description)
    [] code = "DESCRIPTION_TOO_LONG" ->
         /\ IsString(data.description)
         /\ Length(data.description) > MaxDescriptionLength
    [] code = "INVALID_STATUS" ->
         data.status # Undefined /\ ~GoodStatus(data.status)

Violated == { i \in DOMAIN RuleOrder : Violates(RuleOrder[i]) }

FirstViolated ==
  RuleOrder[CHOOSE i \in Violated : \A j \in Violated : i <= j]

\* C30: createTask and updateTask report, for an input that violates several
\* rules, exactly the first of them in the order id, title empty, title too
\* long, description empty, description too long, status; validation precedes
\* the lookup, so an update with invalid data of an id that is not stored
\* reports the validation error and not TASK_NOT_FOUND
C30_FirstErrorInFixedOrder ==
  last.op \in {"createTask", "updateTask"} =>
    /\ Cardinality(Violated) >= 2 =>
         last.kind = "TaskError" /\ last.code = FirstViolated
    /\ (last.op = "updateTask" /\ Violated # {} /\ ~MapHas(tasks, last.id)) =>
         /\ last.kind = "TaskError"
         /\ last.code = FirstViolated
         /\ last.statusCode = BadRequest

====
